---- MODULE Spec2Model ----
(***************************************************************************)
(* Model of simple_finder.py: the PrimesDB packed index, the trial         *)
(* division oracle, the directional scan and the closest-primes merge.     *)
(*                                                                         *)
(* An optional value (Python None or a value) is a sequence of length 0    *)
(* or 1: None is <<>>, a loaded byte buffer b is <<b>>.  A byte buffer is  *)
(* a sequence of integers 0..255; Python index a is TLA+ index a + 1.      *)
(***************************************************************************)
EXTENDS Integers, Sequences, FiniteSets, TLC

\* ------------------------------------------------------------------ bounds
\* largest query integer
MaxN == 101
\* largest integer the oracle alone is run on
MaxOracleN == 400
\* number of negative query integers that are tried (-NegN .. -1)
NegN == 1
\* largest requested count
MaxCount == 2
\* number of non-positive counts that are tried (-(NegCount-1) .. 0)
NegCount == 2
\* largest length of a part of the plate in a form
MaxPartLen == 2
\* number of request threads that run concurrently
NumThreads == 2
\* length in bytes of the full index file
MaxBufLen == 5
\* ceiling of the scan: the source uses 10**10, scaled down so that the
\* guard is within reach of the bounded query integers
ScanBound == 108

\* line 591: the default and the cap of count
DefaultCount == 10
CountCap == 512
\* line 596: the lengths a part of the plate may have
MinPartLen == 2
MaxPlateLen == 5

None == <<>>
Some(v) == <<v>>
Val(opt) == opt[1]

\* ------------------------------------------------------- trial division
\* the loop with i * i < n as its condition
RECURSIVE IsPrimeLoopStrict(_, _)
IsPrimeLoopStrict(n, i) ==
    IF i * i < n
    THEN IF n % i = 0 \/ n % (i + 2) = 0
         THEN FALSE
         ELSE IsPrimeLoopStrict(n, i + 6)
    ELSE TRUE

RECURSIVE IsPrimeLoop(_, _)
IsPrimeLoop(n, i) ==
    IF i * i <= n
    THEN IF n % i = 0 \/ n % (i + 2) = 0
         THEN FALSE
         ELSE IsPrimeLoop(n, i + 6)
    ELSE TRUE

IsPrime(n) ==
    IF n <= 1 THEN FALSE
    ELSE IF n <= 3 THEN TRUE
    ELSE IF n % 2 = 0 \/ n % 3 = 0 THEN FALSE
    ELSE IsPrimeLoop(n, 5)

\* ---------------------------------------------------------- packed index
\* int(x) of Python truncates toward zero; x is num/den with den > 0
IntTrunc(num, den) ==
    IF num >= 0 THEN num \div den ELSE 0 - ((0 - num) \div den)

\* the address without the + 0.5 of line 76
AddressNoRound(decade) == IntTrunc(decade, 2) - 1

\* int(decade / 2 + 0.5) - 1; decade/2 + 0.5 is (decade + 1)/2, exact in
\* double precision for every decade below 2^52
Address(decade) == IntTrunc(decade + 1, 2) - 1

\* the dict {1: 0, 3: 1, 7: 2, 9: 3}
bit_positions == [d \in {1, 3, 7, 9} |->
                    CASE d = 1 -> 0 [] d = 3 -> 1 [] d = 7 -> 2 [] d = 9 -> 3]

\* the bit position without the +4 of the even decades
BitPosLowNibble(number) == bit_positions[number % 10]

BitPos(number) ==
    LET last_digit == number % 10
        decade == number \div 10
    IN  IF decade % 2 = 0
        THEN bit_positions[last_digit] + 4
        ELSE bit_positions[last_digit]

\* the mask applied without the shift
BitOfNoShift(byte_value, bit_pos) == byte_value % 2

\* (byte_value >> bit_pos) & 1
BitOf(byte_value, bit_pos) == (byte_value \div (2 ^ bit_pos)) % 2

\* an address outside the buffer answered with False
OutOfRangeFalse(number) == FALSE

\* the answer when the address is outside the buffer
OutOfRangeAnswer(number) == IsPrime(number)

\* number passes every early return of lines 62-72
SurvivesFastPaths(number) ==
    /\ number >= 2
    /\ number \notin {2, 3, 5, 7}
    /\ ~(number % 2 = 0 \/ number % 3 = 0 \/ number % 5 = 0)
    /\ (number % 10) \in {1, 3, 7, 9}

\* the lookup with the divisibility test of lines 68-69 lost
LookupNoDivisibility(buf, number) ==
    IF number < 2 THEN FALSE
    ELSE IF number \in {2, 3, 5, 7} THEN TRUE
    ELSE IF (number % 10) \notin {1, 3, 7, 9} THEN FALSE
    ELSE LET address == Address(number \div 10)
         IN  IF address < 0 \/ address >= Len(buf)
             THEN OutOfRangeAnswer(number)
             ELSE BitOf(buf[address + 1], BitPos(number)) = 1

\* is_prime_primesdb past its load guard, buf the bytes of primesdb_data
Lookup(buf, number) ==
    IF number < 2 THEN FALSE
    ELSE IF number \in {2, 3, 5, 7} THEN TRUE
    ELSE IF number % 2 = 0 \/ number % 3 = 0 \/ number % 5 = 0 THEN FALSE
    ELSE IF (number % 10) \notin {1, 3, 7, 9} THEN FALSE
    ELSE LET address == Address(number \div 10)
         IN  IF address < 0 \/ address >= Len(buf)
             THEN OutOfRangeAnswer(number)
             ELSE BitOf(buf[address + 1], BitPos(number)) = 1

\* the path with the % 5 test of line 68 lost
LookupPathNoFive(buf, number) ==
    IF number < 2 THEN "below_two"
    ELSE IF number \in {2, 3, 5, 7} THEN "small_prime"
    ELSE IF number % 2 = 0 \/ number % 3 = 0 THEN "divisible"
    ELSE IF (number % 10) \notin {1, 3, 7, 9} THEN "last_digit"
    ELSE LET address == Address(number \div 10)
         IN  IF address < 0 THEN "negative_address"
             ELSE IF address >= Len(buf) THEN "beyond_end"
             ELSE IF (number % 10) \notin DOMAIN bit_positions
                  THEN "missing_key"
                  ELSE "bit"

\* the return statement of lines 62-95 that answers number: line 63, 65,
\* 69, 72, line 81 by either half of its test, a KeyError of line 85, or
\* line 95
LookupPath(buf, number) ==
    IF number < 2 THEN "below_two"
    ELSE IF number \in {2, 3, 5, 7} THEN "small_prime"
    ELSE IF number % 2 = 0 \/ number % 3 = 0 \/ number % 5 = 0
         THEN "divisible"
    ELSE IF (number % 10) \notin {1, 3, 7, 9} THEN "last_digit"
    ELSE LET address == Address(number \div 10)
         IN  IF address < 0 THEN "negative_address"
             ELSE IF address >= Len(buf) THEN "beyond_end"
             ELSE IF (number % 10) \notin DOMAIN bit_positions
                  THEN "missing_key"
                  ELSE "bit"

\* ------------------------------------------------------ index file bytes
\* the set of divisors definition of primality, the reference for the tests
Prime(n) == n >= 2 /\ \A d \in 2..(n - 1) : n % d # 0

Bit(b) == IF b THEN 1 ELSE 0

\* byte a of a well-formed index file: bits 0-3 are the candidates ending
\* in 1, 3, 7, 9 of decade 2a+1, bits 4-7 those of decade 2a+2
TrueByte(a) ==
    LET lo == 10 * (2 * a + 1)
        hi == 10 * (2 * a + 2)
    IN  Bit(Prime(lo + 1)) + 2 * Bit(Prime(lo + 3)) + 4 * Bit(Prime(lo + 7))
        + 8 * Bit(Prime(lo + 9)) + 16 * Bit(Prime(hi + 1))
        + 32 * Bit(Prime(hi + 3)) + 64 * Bit(Prime(hi + 7))
        + 128 * Bit(Prime(hi + 9))

TrueBuffer(len) == [i \in 1..len |-> TrueByte(i - 1)]

\* the byte contents a cache file or an HTTP response may have: the full
\* well-formed file, a short well-formed file, an empty file, and a
\* malformed file (every bit of the well-formed file inverted)
Buffers ==
    { TrueBuffer(MaxBufLen), TrueBuffer(1), <<>>,
      [i \in 1..MaxBufLen |-> 255 - TrueByte(i - 1)] }

Prefixes(c) == { SubSeq(c, 1, k) : k \in 0..(Len(c) - 1) }

\* --------------------------------------------------------- loading
\* download_primesdb() run on cache file state file: the set of possible
\* outcomes.  assigned is Some(b) when primesdb_data = b was executed and
\* None when no assignment happened; ret is the return value.
DownloadPrimesdb(file) ==
    IF file # None
    THEN \* os.path.exists is true: read the cache, or open/read raises
         { [assigned |-> file, file |-> file, ret |-> TRUE],
           [assigned |-> None, file |-> file, ret |-> FALSE] }
    ELSE \* requests.get raises or answers a status other than 200
         { [assigned |-> None, file |-> None, ret |-> FALSE] }
         \cup
         \* status 200 and the cache file is written completely
         { [assigned |-> Some(c), file |-> Some(c), ret |-> TRUE] :
             c \in Buffers }
         \cup
         \* status 200, open(..., 'wb') raises
         { [assigned |-> Some(c), file |-> None, ret |-> FALSE] :
             c \in Buffers }
         \cup
         \* status 200, f.write raises after the file was created
         UNION { { [assigned |-> Some(c), file |-> Some(p), ret |-> FALSE] :
                     p \in Prefixes(c) } : c \in Buffers }

\* the value of the global after an outcome d of download_primesdb
AfterDownload(data, d) == IF d.assigned # None THEN d.assigned ELSE data

\* is_prime_primesdb(number): the set of possible results.  load is
\* "none" when the guard of line 55 was false, else "ok" or "failed"
\* after the return value of download_primesdb.
IsPrimePrimesdb(data, file, number) ==
    IF data = None
    THEN { LET nd == AfterDownload(data, d)
           IN  [data |-> nd, file |-> d.file,
                load |-> IF d.ret THEN "ok" ELSE "failed",
                ret |-> IF d.ret THEN Lookup(Val(nd), number)
                                 ELSE IsPrime(number)] :
             d \in DownloadPrimesdb(file) }
    ELSE { [data |-> data, file |-> file, load |-> "none",
            ret |-> Lookup(Val(data), number)] }

\* ------------------------------------------------------------- scanner
\* the scan started on the number itself
FirstCursorNoStep(number, direction) == number

\* the first cursor value of lines 108-118
FirstCursor(number, direction) ==
    IF direction = "smaller" THEN number - 1 ELSE number + 1

\* the step with the downward branch of line 118 lost
StepAlwaysUp(direction) == 1

Step(direction) == IF direction = "larger" THEN 1 ELSE -1

\* the loop condition of line 121
ScanGuard(result, current, count) ==
    Len(result) < count /\ current > 1 /\ current < ScanBound

\* the while loop of lines 121-124; primesdb_data is loaded here, so the
\* guard of is_prime_primesdb is false in every iteration
RECURSIVE ScanLoop(_, _, _, _, _)
ScanLoop(buf, result, current, count, step) ==
    IF ScanGuard(result, current, count)
    THEN ScanLoop(buf,
                  IF Lookup(buf, current) THEN Append(result, current)
                                          ELSE result,
                  current + step, count, step)
    ELSE result

Scan(buf, number, count, direction) ==
    ScanLoop(buf, <<>>, FirstCursor(number, direction), count,
             Step(direction))

\* find_primes_near loading on every call, the guard of line 102 dropped
FindPrimesNearAlwaysLoad(data, file, number, count, direction) ==
    { LET nd == AfterDownload(data, d)
      IN  [data |-> nd, file |-> d.file,
           load |-> IF d.ret THEN "ok" ELSE "failed",
           ret |-> IF d.ret THEN ScanLoop(Val(nd), <<>>,
                                          IF direction = "smaller"
                                          THEN number - 1 ELSE number + 1,
                                          count,
                                          IF direction = "larger" THEN 1
                                                                  ELSE -1)
                            ELSE <<>>] :
        d \in DownloadPrimesdb(file) }

\* what find_primes_near returns when download_primesdb returned False
NoBufferResult(number, count, direction) == <<>>

\* find_primes_near(number, count, direction): the set of possible results
FindPrimesNear(data, file, number, count, direction) ==
    IF data = None
    THEN { LET nd == AfterDownload(data, d)
           IN  [data |-> nd, file |-> d.file,
                load |-> IF d.ret THEN "ok" ELSE "failed",
                ret |-> IF d.ret
                        THEN Scan(Val(nd), number, count, direction)
                        ELSE NoBufferResult(number, count, direction)] :
             d \in DownloadPrimesdb(file) }
    ELSE { [data |-> data, file |-> file, load |-> "none",
            ret |-> Scan(Val(data), number, count, direction)] }

\* ---------------------------------------------------------- aggregator
\* the distance of a smaller prime taken as prime - number
CandidatesSigned(larger_primes, smaller_primes, number) ==
    [i \in 1..Len(larger_primes) |->
        <<larger_primes[i], larger_primes[i] - number>>]
    \o
    [i \in 1..Len(smaller_primes) |->
        <<smaller_primes[i], smaller_primes[i] - number>>]

\* lines 290-297: (prime, distance) for the larger primes, then for the
\* smaller primes
Candidates(larger_primes, smaller_primes, number) ==
    [i \in 1..Len(larger_primes) |->
        <<larger_primes[i], larger_primes[i] - number>>]
    \o
    [i \in 1..Len(smaller_primes) |->
        <<smaller_primes[i], number - smaller_primes[i]>>]

\* an insertion that puts e in front of the entries with an equal key
RECURSIVE InsertBeforeEqual(_, _)
InsertBeforeEqual(sorted, e) ==
    IF sorted = <<>> THEN <<e>>
    ELSE IF sorted[Len(sorted)][2] < e[2]
         THEN Append(sorted, e)
         ELSE Append(InsertBeforeEqual(SubSeq(sorted, 1, Len(sorted) - 1), e),
                     sorted[Len(sorted)])

\* one insertion of the stable sort: e goes behind every entry whose key
\* is less than or equal to its own
RECURSIVE InsertByDistance(_, _)
InsertByDistance(sorted, e) ==
    IF sorted = <<>> THEN <<e>>
    ELSE IF sorted[Len(sorted)][2] <= e[2]
         THEN Append(sorted, e)
         ELSE Append(InsertByDistance(SubSeq(sorted, 1, Len(sorted) - 1), e),
                     sorted[Len(sorted)])

\* the list left in the order of lines 292-300
NoSort(result) == result

\* result.sort(key=lambda x: x[1]): list.sort is stable
RECURSIVE SortByDistance(_)
SortByDistance(result) ==
    IF result = <<>> THEN <<>>
    ELSE InsertByDistance(
             SortByDistance(SubSeq(result, 1, Len(result) - 1)),
             result[Len(result)])

\* result[:count], a negative count counting from the end
Truncate(result, count) ==
    IF count >= 0
    THEN SubSeq(result, 1, IF count < Len(result) THEN count ELSE Len(result))
    ELSE SubSeq(result, 1, IF Len(result) + count > 0
                           THEN Len(result) + count ELSE 0)

\* lines 306-316; prime_base36 is a rendering of prime_base10 and is not
\* carried
ToDicts(result) ==
    [i \in 1..Len(result) |->
        [prime_base10 |-> result[i][1], distance |-> result[i][2]]]

Aggregate(larger_primes, smaller_primes, number, count) ==
    ToDicts(Truncate(SortByDistance(
        Candidates(larger_primes, smaller_primes, number)), count))

\* find_closest_primes(number, count): the set of possible results; the
\* two scans run one after the other on the global state
FindClosestPrimes(data, file, number, count) ==
    UNION { { [data |-> s.data, file |-> s.file,
               load |-> <<l.load, s.load>>,
               larger_primes |-> l.ret, smaller_primes |-> s.ret,
               ret |-> Aggregate(l.ret, s.ret, number, count)] :
                s \in FindPrimesNear(l.data, l.file, number, count,
                                     "smaller") } :
            l \in FindPrimesNear(data, file, number, count, "larger") }

\* ---------------------------------------------------------------- state
VARIABLES
    primesdb_data,   \* the global: None or Some(bytes)
    cache_file,      \* primesdb_cache.bin: None (absent) or Some(bytes)
    phase,           \* "boot" before the module level load, then "serving"
    number,          \* the integer the calls are made with
    count,           \* the count the calls are made with
    last,            \* the call that ran last, its arguments and result
    prev,            \* the result of the same call made just before it
    pc,              \* per request thread: its position in the code
    off,             \* per request thread: bytes it has written to the cache
    src,             \* per request thread: the argument of its f.write
    seen,            \* per request thread: the global its lookup read
    form,            \* the form of the POST /search request being served
    scan             \* the locals of a find_primes_near run step by step

vars == <<primesdb_data, cache_file, phase, number, count, last, prev,
          pc, off, src, seen, form, scan>>

seq_vars == <<last, prev>>
thread_vars == <<pc, off, src, seen>>

Threads == 1..NumThreads

Numbers == (0 - NegN)..MaxN
Counts == (1 - NegCount)..MaxCount
Directions == {"larger", "smaller"}

NoCall ==
    [op |-> "none", direction |-> "none", data0 |-> None, load |-> <<>>,
     ret |-> <<>>]

InitGlobals ==
    /\ primesdb_data = None
    /\ cache_file \in {None} \cup { Some(b) : b \in Buffers }
    /\ phase = "boot"
    /\ last = NoCall
    /\ prev = None
    /\ pc = [t \in Threads |-> "idle"]
    /\ off = [t \in Threads |-> 0]
    /\ src = [t \in Threads |-> <<>>]
    /\ seen = [t \in Threads |-> None]

\* no stepwise run of find_primes_near has started
NoScan ==
    [pc |-> "idle", direction |-> "none", step |-> 0, current |-> 0,
     result |-> <<>>]

\* no /search request is being served
NoForm == [part1 |-> <<>>, part2 |-> <<>>, count |-> [kind |-> "missing"]]

Init ==
    /\ InitGlobals
    /\ number \in Numbers
    /\ count \in Counts
    /\ form = NoForm
    /\ scan = NoScan

\* lines 164-167: the load at import time
Startup ==
    /\ phase = "boot"
    /\ \E d \in DownloadPrimesdb(cache_file) :
          /\ primesdb_data' = AfterDownload(primesdb_data, d)
          /\ cache_file' = d.file
    /\ phase' = "serving"
    /\ UNCHANGED <<number, count, last, prev, thread_vars, form, scan>>

CallIsPrime ==
    /\ phase = "serving"
    /\ last' = [op |-> "is_prime", direction |-> "none",
                data0 |-> primesdb_data, load |-> <<>>,
                ret |-> IsPrime(number)]
    /\ prev' = None
    /\ UNCHANGED <<primesdb_data, cache_file, phase, number, count, thread_vars, form, scan>>

CallIsPrimePrimesdb ==
    /\ phase = "serving"
    /\ \E r \in IsPrimePrimesdb(primesdb_data, cache_file, number) :
          /\ primesdb_data' = r.data
          /\ cache_file' = r.file
          /\ last' = [op |-> "is_prime_primesdb", direction |-> "none",
                      data0 |-> primesdb_data, load |-> <<r.load>>,
                      ret |-> r.ret]
    /\ prev' = None
    /\ UNCHANGED <<phase, number, count, thread_vars, form, scan>>

CallFindPrimesNear ==
    /\ phase = "serving"
    /\ \E dir \in Directions :
       \E r \in FindPrimesNear(primesdb_data, cache_file, number, count, dir) :
          /\ primesdb_data' = r.data
          /\ cache_file' = r.file
          /\ last' = [op |-> "find_primes_near", direction |-> dir,
                      data0 |-> primesdb_data, load |-> <<r.load>>,
                      ret |-> r.ret]
    /\ prev' = None
    /\ UNCHANGED <<phase, number, count, thread_vars, form, scan>>

ClosestCall(r) ==
    [op |-> "find_closest_primes", direction |-> "none",
     data0 |-> primesdb_data, load |-> r.load, ret |-> r.ret]

\* prev keeps the result of a call of find_closest_primes that ran just
\* before this one, with the same arguments
CallFindClosestPrimes ==
    /\ phase = "serving"
    /\ \E r \in FindClosestPrimes(primesdb_data, cache_file, number, count) :
          /\ primesdb_data' = r.data
          /\ cache_file' = r.file
          /\ last' = ClosestCall(r)
    /\ prev' = IF last.op = "find_closest_primes"
               THEN Some([data0 |-> last.data0, ret |-> last.ret])
               ELSE None
    /\ UNCHANGED <<phase, number, count, thread_vars, form, scan>>

Next ==
    \/ Startup
    \/ CallIsPrime
    \/ CallIsPrimePrimesdb
    \/ CallFindPrimesNear
    \/ CallFindClosestPrimes

Spec == Init /\ [][Next]_vars

\* the oracle alone, on a range of integers that takes its loop through
\* several iterations
InitOracle ==
    /\ InitGlobals
    /\ cache_file = None
    /\ number \in (0 - NegN)..MaxOracleN
    /\ count = 1
    /\ form = NoForm
    /\ scan = NoScan

NextOracle ==
    \/ Startup
    \/ CallIsPrime

SpecOracle == InitOracle /\ [][NextOracle]_vars

\* ------------------------------------------------- concurrent requests
\* Request threads that each run is_prime_primesdb(number), one statement
\* of lines 22-58 at a time.  The source takes no lock.

\* line 55: the guard of the lazy load
Guard(t) ==
    /\ phase = "serving"
    /\ pc[t] = "idle"
    /\ pc' = [pc EXCEPT ![t] = IF primesdb_data = None THEN "exists"
                                                       ELSE "lookup"]
    /\ UNCHANGED <<primesdb_data, cache_file, off, src, seen,
                 phase, number, count, seq_vars, form, scan>>

\* line 27: os.path.exists(PRIMESDB_CACHE_FILE)
Exists(t) ==
    /\ pc[t] = "exists"
    /\ pc' = [pc EXCEPT ![t] = IF cache_file # None THEN "read" ELSE "get"]
    /\ UNCHANGED <<primesdb_data, cache_file, off, src, seen,
                 phase, number, count, seq_vars, form, scan>>

\* lines 29-31: read whatever the file holds now, assign it, return True
ReadCache(t) ==
    /\ pc[t] = "read"
    /\ primesdb_data' = cache_file
    /\ pc' = [pc EXCEPT ![t] = "lookup"]
    /\ UNCHANGED <<cache_file, off, src, seen,
                 phase, number, count, seq_vars, form, scan>>

\* lines 35-37: status 200, the global is assigned before the file is
\* written
GetOk(t) ==
    /\ pc[t] = "get"
    /\ \E c \in Buffers : primesdb_data' = Some(c)
    /\ pc' = [pc EXCEPT ![t] = "open_w"]
    /\ UNCHANGED <<cache_file, off, src, seen,
                 phase, number, count, seq_vars, form, scan>>

\* lines 36, 43-45: a status other than 200
GetBadStatus(t) ==
    /\ pc[t] = "get"
    /\ pc' = [pc EXCEPT ![t] = "failed"]
    /\ UNCHANGED <<primesdb_data, cache_file, off, src, seen,
                 phase, number, count, seq_vars, form, scan>>

\* line 39: open(..., 'wb') creates or truncates the file; line 40 then
\* evaluates the global as the argument of f.write
OpenWrite(t) ==
    /\ pc[t] = "open_w"
    /\ cache_file' = Some(<<>>)
    /\ off' = [off EXCEPT ![t] = 0]
    /\ src' = [src EXCEPT ![t] = Val(primesdb_data)]
    /\ pc' = [pc EXCEPT ![t] = "write"]
    /\ UNCHANGED <<primesdb_data, seen,
                 phase, number, count, seq_vars, form, scan>>

\* the file after one byte is written at offset o of an own descriptor
WriteAt(f, o, byte) ==
    LET padded == IF o > Len(f) THEN f \o [i \in 1..(o - Len(f)) |-> 0]
                                ELSE f
    IN  IF o < Len(padded) THEN [padded EXCEPT ![o + 1] = byte]
                           ELSE Append(padded, byte)

\* line 40: the bytes reach the file one after the other
WriteByte(t) ==
    /\ pc[t] = "write"
    /\ off[t] < Len(src[t])
    /\ cache_file' = Some(WriteAt(Val(cache_file), off[t], src[t][off[t] + 1]))
    /\ off' = [off EXCEPT ![t] = off[t] + 1]
    /\ UNCHANGED <<primesdb_data, pc, src, seen,
                 phase, number, count, seq_vars, form, scan>>

\* lines 40-42: the write is complete, the file is closed, return True
WriteDone(t) ==
    /\ pc[t] = "write"
    /\ off[t] = Len(src[t])
    /\ pc' = [pc EXCEPT ![t] = "lookup"]
    /\ UNCHANGED <<primesdb_data, cache_file, off, src, seen,
                 phase, number, count, seq_vars, form, scan>>

\* lines 46-48: an I/O or network call raises, return False
Raise(t) ==
    /\ pc[t] \in {"read", "get", "open_w", "write"}
    /\ pc' = [pc EXCEPT ![t] = "failed"]
    /\ UNCHANGED <<primesdb_data, cache_file, off, src, seen,
                 phase, number, count, seq_vars, form, scan>>

\* lines 60-95: the lookup reads the global
LookupStep(t) ==
    /\ pc[t] = "lookup"
    /\ seen' = [seen EXCEPT ![t] = primesdb_data]
    /\ pc' = [pc EXCEPT ![t] = "done"]
    /\ UNCHANGED <<primesdb_data, cache_file, off, src,
                 phase, number, count, seq_vars, form, scan>>

\* line 58: the answer of is_prime, no buffer is read
Fallback(t) ==
    /\ pc[t] = "failed"
    /\ pc' = [pc EXCEPT ![t] = "done"]
    /\ UNCHANGED <<primesdb_data, cache_file, off, src, seen,
                 phase, number, count, seq_vars, form, scan>>

\* the lookups of the concurrent requests are of the first indexed decade
InitConc ==
    /\ InitGlobals
    /\ number \in 11..13
    /\ count = 1
    /\ form = NoForm
    /\ scan = NoScan

NextConc ==
    \/ Startup
    \/ \E t \in Threads : Guard(t)
    \/ \E t \in Threads : Exists(t)
    \/ \E t \in Threads : ReadCache(t)
    \/ \E t \in Threads : GetOk(t)
    \/ \E t \in Threads : GetBadStatus(t)
    \/ \E t \in Threads : OpenWrite(t)
    \/ \E t \in Threads : WriteByte(t)
    \/ \E t \in Threads : WriteDone(t)
    \/ \E t \in Threads : Raise(t)
    \/ \E t \in Threads : LookupStep(t)
    \/ \E t \in Threads : Fallback(t)

SpecConc == InitConc /\ [][NextConc]_vars

\* ------------------------------------------------ the scan step by step
\* find_primes_near(number, count, direction) run one loop test at a time;
\* scan holds its locals.

\* lines 101-118: the load guard, then result, current and step are set
ScanEnter ==
    /\ phase = "serving"
    /\ scan.pc # "loop"
    /\ \E dir \in Directions :
         LET started == [pc |-> "loop", direction |-> dir,
                         step |-> Step(dir),
                         current |-> FirstCursor(number, dir),
                         result |-> <<>>]
             empty == [pc |-> "empty", direction |-> dir, step |-> 0,
                       current |-> number, result |-> <<>>]
         IN  IF primesdb_data = None
             THEN \E d \in DownloadPrimesdb(cache_file) :
                     /\ primesdb_data' = AfterDownload(primesdb_data, d)
                     /\ cache_file' = d.file
                     /\ scan' = IF d.ret THEN started ELSE empty
             ELSE /\ scan' = started
                  /\ UNCHANGED <<primesdb_data, cache_file>>
    /\ UNCHANGED <<phase, number, count, seq_vars, thread_vars, form>>

\* lines 121-124: the loop test is true, one iteration runs
ScanIterate ==
    /\ scan.pc = "loop"
    /\ ScanGuard(scan.result, scan.current, count)
    /\ scan' = [scan EXCEPT
                  !.result = IF Lookup(Val(primesdb_data), scan.current)
                             THEN Append(scan.result, scan.current)
                             ELSE scan.result,
                  !.current = scan.current + scan.step]
    /\ UNCHANGED <<primesdb_data, cache_file, phase, number, count,
                   seq_vars, thread_vars, form>>

\* lines 121, 126: the loop test is false, result is returned
ScanReturn ==
    /\ scan.pc = "loop"
    /\ ~ScanGuard(scan.result, scan.current, count)
    /\ scan' = [scan EXCEPT !.pc = "done"]
    /\ UNCHANGED <<primesdb_data, cache_file, phase, number, count,
                   seq_vars, thread_vars, form>>

\* the cache file of an earlier run is present
InitScan ==
    /\ InitGlobals
    /\ cache_file # None
    /\ number \in Numbers
    /\ count \in Counts
    /\ form = NoForm
    /\ scan = NoScan

NextScan ==
    \/ Startup
    \/ ScanEnter
    \/ ScanIterate
    \/ ScanReturn

\* a started call runs on: the loop is sequential code
SpecScan ==
    InitScan /\ [][NextScan]_vars /\ WF_vars(ScanIterate) /\ WF_vars(ScanReturn)

\* ------------------------------------------------------- search handler
\* A form field is a sequence of characters, each a one-character string.
Chars == {"-", "1", "a", " "}

RECURSIVE Strings(_)
Strings(len) ==
    IF len = 0 THEN { <<>> }
    ELSE { Append(t, c) : t \in Strings(len - 1), c \in Chars }

Parts == UNION { Strings(k) : k \in 0..MaxPartLen }

\* the count field: absent, a decimal integer, or any other text
CountFields ==
    { [kind |-> "missing"], [kind |-> "text"] }
    \cup { [kind |-> "int", value |-> v] :
             v \in (0 - NegCount)..MaxCount \cup {CountCap + 1} }

Forms == [part1 : Parts, part2 : Parts, count : CountFields]

IsSpace(c) == c = " "
IsDigit(c) == c \in {"0", "1", "2", "3", "4", "5", "6", "7", "8", "9"}
IsAlpha(c) == c \in {"a", "A"}
DigitValue(c) ==
    CASE c = "0" -> 0 [] c = "1" -> 1 [] c = "2" -> 2 [] c = "3" -> 3
      [] c = "4" -> 4 [] c = "5" -> 5 [] c = "6" -> 6 [] c = "7" -> 7
      [] c = "8" -> 8 [] c = "9" -> 9
Ord(c) ==
    CASE c = " " -> 32 [] c = "-" -> 45 [] c = "1" -> 49 [] c = "A" -> 65
      [] c = "a" -> 97
UpperChar(c) == IF c = "a" THEN "A" ELSE c

\* str.strip()
RECURSIVE Strip(_)
Strip(text) ==
    IF text = <<>> THEN <<>>
    ELSE IF IsSpace(text[1]) THEN Strip(Tail(text))
    ELSE IF IsSpace(text[Len(text)])
         THEN Strip(SubSeq(text, 1, Len(text) - 1))
         ELSE text

\* str.upper()
Upper(text) == [i \in DOMAIN text |-> UpperChar(text[i])]

\* lines 246-248
contains_letters(text) == \E i \in DOMAIN text : IsAlpha(text[i])

\* lines 250-259: a character that is no digit counts ord - ord('A') + 10
RECURSIVE to_base10(_)
to_base10(text) ==
    IF text = <<>> THEN 0
    ELSE LET char == text[Len(text)]
             value == IF IsDigit(char) THEN DigitValue(char)
                      ELSE Ord(UpperChar(char)) - Ord("A") + 10
         IN  to_base10(SubSeq(text, 1, Len(text) - 1)) * 36 + value

\* int(text): an optional minus sign and decimal digits, else ValueError
IntDigits(text) ==
    IF text # <<>> /\ text[1] = "-" THEN Tail(text) ELSE text

IntOk(text) ==
    /\ IntDigits(Strip(text)) # <<>>
    /\ \A i \in DOMAIN IntDigits(Strip(text)) :
          IsDigit(IntDigits(Strip(text))[i])

RECURSIVE Decimal(_)
Decimal(digits) ==
    IF digits = <<>> THEN 0
    ELSE Decimal(SubSeq(digits, 1, Len(digits) - 1)) * 10
         + DigitValue(digits[Len(digits)])

IntValue(text) ==
    IF Strip(text)[1] = "-" THEN 0 - Decimal(IntDigits(Strip(text)))
                            ELSE Decimal(IntDigits(Strip(text)))

Min(a, b) == IF a < b THEN a ELSE b

\* line 591: count = min(int(request.form.get('count', 10)), 512)
CountOf(field) ==
    Min(IF field.kind = "missing" THEN DefaultCount ELSE field.value,
        CountCap)

\* line 596: part1 and 2 <= len(part1) <= 5 and part2 and ...
PartsValid(part1, part2) ==
    /\ part1 # <<>> /\ MinPartLen <= Len(part1) /\ Len(part1) <= MaxPlateLen
    /\ part2 # <<>> /\ MinPartLen <= Len(part2) /\ Len(part2) <= MaxPlateLen

\* lines 606-615: does the conversion of a part raise ValueError
ConvertOk(part) == contains_letters(part) \/ IntOk(part)

PartNumber(part) ==
    IF contains_letters(part) THEN to_base10(part) ELSE IntValue(part)

\* a response that is an error page: no call of the core was made
ErrorPage(data, file, status) ==
    [data |-> data, file |-> file, load |-> <<>>,
     ret |-> [status |-> status, calls |-> <<>>]]

\* search(): the set of possible outcomes on the form f.  calls lists the
\* arguments of the calls of find_closest_primes in order.  The random
\* combinations of lines 645-674 are computed from the two result lists
\* and are not carried.
SearchHandler(data, file, f) ==
    IF f.count.kind = "text"
    THEN { ErrorPage(data, file, "exception") }
    ELSE
      LET part1 == Upper(Strip(f.part1))
          part2 == Upper(Strip(f.part2))
          cnt == CountOf(f.count)
      IN  IF ~PartsValid(part1, part2)
          THEN { ErrorPage(data, file, "bad_format") }
          ELSE IF ~(ConvertOk(part1) /\ ConvertOk(part2))
          THEN { ErrorPage(data, file, "bad_number") }
          ELSE
            LET n1 == PartNumber(part1)
                n2 == PartNumber(part2)
            IN  UNION {
                  { [data |-> r2.data, file |-> r2.file,
                     load |-> r1.load \o r2.load,
                     ret |-> [status |-> "ok",
                              calls |-> << [number |-> n1, count |-> cnt],
                                           [number |-> n2, count |-> cnt] >>,
                              part1_primes |-> r1.ret,
                              part2_primes |-> r2.ret,
                              part1_is_prime |-> IsPrime(n1),
                              part2_is_prime |-> IsPrime(n2)]] :
                      r2 \in FindClosestPrimes(r1.data, r1.file, n2, cnt) } :
                  r1 \in FindClosestPrimes(data, file, n1, cnt) }

\* lines 581-690: POST /search
Search ==
    /\ phase = "serving"
    /\ \E r \in SearchHandler(primesdb_data, cache_file, form) :
          /\ primesdb_data' = r.data
          /\ cache_file' = r.file
          /\ last' = [op |-> "search", direction |-> "none",
                      data0 |-> primesdb_data, load |-> r.load,
                      ret |-> r.ret]
    /\ prev' = None
    /\ UNCHANGED <<phase, number, count, thread_vars, form, scan>>

InitSearch ==
    /\ InitGlobals
    /\ number = 0
    /\ count = 0
    /\ form \in Forms
    /\ scan = NoScan

NextSearch ==
    \/ Startup
    \/ Search

SpecSearch == InitSearch /\ [][NextSearch]_vars

\* ================================================================ claims
Closest == last.op = "find_closest_primes"
Near == last.op = "find_primes_near"
LoadFailed == \E i \in DOMAIN last.load : last.load[i] = "failed"
Abs(x) == IF x >= 0 THEN x ELSE 0 - x

\* buf is a well-formed index file: every bit is the true primality of the
\* integer it stands for
WellFormed(buf) == buf = TrueBuffer(Len(buf))

\* the scan of lines 107-126 with every lookup answered by is_prime
RECURSIVE OracleScanLoop(_, _, _, _)
OracleScanLoop(result, current, c, step) ==
    IF ScanGuard(result, current, c)
    THEN OracleScanLoop(IF IsPrime(current) THEN Append(result, current)
                                            ELSE result,
                        current + step, c, step)
    ELSE result

OracleScan(n, c, direction) ==
    OracleScanLoop(<<>>, FirstCursor(n, direction), c, Step(direction))

\* C1: for n >= 0 and count >= 1 find_closest_primes returns at most count
\* entries, every distance is non-negative and equals |prime - n|, and the
\* entries are in non-decreasing order of distance.
C1_BoundedSortedDistances ==
    (Closest /\ number >= 0 /\ count >= 1) =>
        /\ Len(last.ret) <= count
        /\ \A i \in DOMAIN last.ret :
              /\ last.ret[i].distance >= 0
              /\ last.ret[i].distance = Abs(last.ret[i].prime_base10 - number)
        /\ \A i \in DOMAIN last.ret : \A j \in DOMAIN last.ret :
              i < j => last.ret[i].distance <= last.ret[j].distance

\* a result that holds a prime from below and a prime from above
C1_Witness ==
    /\ Closest /\ number >= 0 /\ count >= 2 /\ Len(last.ret) = count
    /\ \E i \in DOMAIN last.ret : last.ret[i].prime_base10 < number
    /\ \E i \in DOMAIN last.ret : last.ret[i].prime_base10 > number

\* the case of C2: a loaded, well-formed buffer, every lookup beyond its
\* end being resolved by the oracle, and the query (100, 2)
C2_Case ==
    /\ Closest /\ number = 100 /\ count = 2
    /\ ~LoadFailed
    /\ primesdb_data # None
    /\ WellFormed(Val(primesdb_data))

\* C2 as stated: find_closest_primes(100, 2) is (101, 1) then (97, 3).
C2_Original ==
    C2_Case =>
        last.ret = << [prime_base10 |-> 101, distance |-> 1],
                      [prime_base10 |-> 97, distance |-> 3] >>

\* C2 amended: with a loaded buffer whose answers agree with true
\* primality, find_closest_primes(100, 2) is (101, 1) then (103, 3): 103
\* and 97 are both at distance 3 and the upward entry is kept.
C2_Amended ==
    C2_Case =>
        last.ret = << [prime_base10 |-> 101, distance |-> 1],
                      [prime_base10 |-> 103, distance |-> 3] >>

\* the query (100, 2) answered from the bits of the full index file
C2_Witness ==
    /\ C2_Case
    /\ Len(Val(primesdb_data)) > Address(103 \div 10)
    /\ Len(last.ret) = 2

\* C3: when no buffer is available (primesdb_data is None and
\* download_primesdb fails) find_primes_near and find_closest_primes return
\* the primes they would return with every lookup answered by is_prime.
C3_FallbackToOracle ==
    /\ (Near /\ LoadFailed /\ primesdb_data = None) =>
          last.ret = OracleScan(number, count, last.direction)
    /\ (Closest /\ primesdb_data = None) =>
          last.ret = Aggregate(OracleScan(number, count, "larger"),
                               OracleScan(number, count, "smaller"),
                               number, count)

\* C4: whenever the index cannot answer (no buffer, or n survives the fast
\* paths and its address is outside the buffer) is_prime_primesdb(n)
\* returns is_prime(n), whatever the buffer holds.
C4_FallbackIsOracle ==
    (/\ last.op = "is_prime_primesdb"
     /\ \/ LoadFailed
        \/ /\ primesdb_data # None
           /\ SurvivesFastPaths(number)
           /\ \/ Address(number \div 10) < 0
              \/ Address(number \div 10) >= Len(Val(primesdb_data)))
    => last.ret = IsPrime(number)

\* a prime beyond the end of a loaded, non-empty buffer
C4_Witness ==
    /\ last.op = "is_prime_primesdb"
    /\ ~LoadFailed
    /\ primesdb_data # None
    /\ Len(Val(primesdb_data)) > 0
    /\ SurvivesFastPaths(number)
    /\ Address(number \div 10) >= Len(Val(primesdb_data))
    /\ last.ret = TRUE

\* C5: is_prime(n) is true exactly when n is prime, and false for n <= 1.
C5_OracleCorrect ==
    last.op = "is_prime" =>
        /\ last.ret <=> Prime(number)
        /\ number <= 1 => last.ret = FALSE

\* a composite that only the third iteration of the loop rejects
C5_Witness ==
    /\ last.op = "is_prime"
    /\ number = 17 * 19
    /\ last.ret = FALSE

\* C6: every element of find_primes_near(n, count, 'larger') is greater
\* than n, every element of (n, count, 'smaller') is less than n; n itself
\* is never returned.
C6_StartExcluded ==
    Near =>
        \A i \in DOMAIN last.ret :
            /\ last.direction = "larger" => last.ret[i] > number
            /\ last.direction = "smaller" => last.ret[i] < number
            /\ last.ret[i] # number

\* a scan that starts on a prime and finds primes
C6_Witness ==
    Near /\ Prime(number) /\ Len(last.ret) > 0 /\ Lookup(Val(primesdb_data), number)

\* C7: entries of equal distance keep insertion order: the upward prime
\* stands before the downward prime.
C7_UpBeforeDownOnTie ==
    Closest =>
        \A i \in DOMAIN last.ret : \A j \in DOMAIN last.ret :
            (/\ last.ret[i].distance = last.ret[j].distance
             /\ last.ret[i].prime_base10 > number
             /\ last.ret[j].prime_base10 < number) => i < j

\* a result that keeps both primes of a tie
C7_Witness ==
    /\ Closest
    /\ \E i \in DOMAIN last.ret : \E j \in DOMAIN last.ret :
          /\ i # j
          /\ last.ret[i].distance = last.ret[j].distance

\* C8: two calls in succession with the same arguments and the index buffer
\* unchanged from the start of the first to the end of the second return
\* identical lists.
C8_Idempotent ==
    (Closest /\ prev # None /\ Val(prev).data0 = primesdb_data) =>
        last.ret = Val(prev).ret

\* a repeated call on a loaded buffer with a non-empty result
C8_Witness ==
    /\ Closest /\ prev # None
    /\ Val(prev).data0 = primesdb_data
    /\ primesdb_data # None
    /\ Len(last.ret) = 2

\* C9: find_closest_primes(2, 1) is exactly (3, 1); for n in {1, 2} the
\* downward scan is empty and the result holds upward primes only.
C9_TwoOne ==
    /\ (Closest /\ number = 2 /\ count = 1) =>
          last.ret = << [prime_base10 |-> 3, distance |-> 1] >>
    /\ (Near /\ last.direction = "smaller" /\ number \in {1, 2}) =>
          last.ret = <<>>
    /\ (Closest /\ number \in {1, 2}) =>
          \A i \in DOMAIN last.ret : last.ret[i].prime_base10 > number

\* thread u has the cache file open for writing and has not written it all
MidWrite(u) == pc[u] = "write" /\ off[u] < Len(src[u])

\* C10: primesdb_data is never set to the contents of a cache file that
\* another thread is still in the middle of writing.
C10_NoTornRead ==
    [][\A t \in Threads :
          (pc[t] = "read" /\ pc'[t] = "lookup") =>
              \A u \in Threads \ {t} : ~MidWrite(u)]_vars

\* C11: once primesdb_data is non-None no later step assigns it again or
\* changes its contents.
C11_LoadedOnce ==
    [][primesdb_data # None => primesdb_data' = primesdb_data]_vars

\* C12: the search handler rejects invalid input before the core is called:
\* find_closest_primes is never invoked with a negative number or with a
\* count <= 0.
C12_CoreNeverGetsInvalid ==
    last.op = "search" =>
        \A i \in DOMAIN last.ret.calls :
            last.ret.calls[i].number >= 0 /\ last.ret.calls[i].count >= 1

\* the cursor has left the open interval (1, bound)
CursorOutside == scan.current <= 1 \/ scan.current >= ScanBound

\* one more iteration has run between this state and the next
Iterated == scan.pc = "loop" /\ scan'.pc = "loop" /\ scan' # scan

\* the result is strictly increasing upward and strictly decreasing downward
ResultMonotone ==
    \A i \in DOMAIN scan.result : \A j \in DOMAIN scan.result :
        i < j => IF scan.direction = "larger"
                 THEN scan.result[i] < scan.result[j]
                 ELSE scan.result[i] > scan.result[j]

\* the cursor moves by one in the direction of the scan
CursorStepsOne ==
    scan'.current = scan.current
                    + (IF scan.direction = "larger" THEN 1 ELSE -1)

\* C13 as stated: the loop terminates, it stops exactly when
\* len(result) == count or the cursor is outside (1, bound), the cursor
\* moves one step per iteration, the result is strictly monotone and has
\* length <= count.
C13_Original ==
    /\ [](scan.pc = "done" =>
            (Len(scan.result) = count \/ CursorOutside))
    /\ [][Iterated =>
            (/\ ~(Len(scan.result) = count \/ CursorOutside)
             /\ CursorStepsOne)]_vars
    /\ [](scan.pc \in {"loop", "done"} =>
            (ResultMonotone /\ Len(scan.result) <= count))
    /\ (scan.pc = "loop" ~> scan.pc = "done")

\* C13 amended: the loop stops exactly when len(result) >= count (which
\* is len(result) == count for count >= 0) or the cursor is outside
\* (1, bound); the result has length <= max(count, 0).
C13_Amended ==
    /\ [](scan.pc = "done" =>
            (Len(scan.result) >= count \/ CursorOutside))
    /\ [](scan.pc = "done" /\ count >= 0 =>
            (Len(scan.result) = count \/ CursorOutside))
    /\ [][Iterated =>
            (/\ ~(Len(scan.result) >= count \/ CursorOutside)
             /\ CursorStepsOne)]_vars
    /\ [](scan.pc \in {"loop", "done"} =>
            (/\ ResultMonotone
             /\ Len(scan.result) <= (IF count >= 0 THEN count ELSE 0)))
    /\ (scan.pc = "loop" ~> scan.pc = "done")

\* a downward scan that returned with count primes after several iterations
C13_Witness ==
    /\ scan.pc = "done"
    /\ scan.direction = "smaller"
    /\ count >= 2
    /\ Len(scan.result) = count
    /\ scan.current < number - count - 1

\* the address and bit of the index file format, from the decade and the
\* last digit of n
FormatAddress(n) == (((n \div 10) + 1) \div 2) - 1

FormatBit(n) ==
    (CASE n % 10 = 1 -> 0 [] n % 10 = 3 -> 1 [] n % 10 = 7 -> 2
       [] n % 10 = 9 -> 3 [] OTHER -> 0 - 1)
    + (IF (n \div 10) % 2 = 0 THEN 4 ELSE 0)

\* bit b of a byte is set
BitSet(byte, b) == (byte \div (2 ^ b)) % 2 = 1

\* the buffer was consulted by the last call of is_prime_primesdb
InRangeLookup ==
    /\ last.op = "is_prime_primesdb"
    /\ ~LoadFailed
    /\ primesdb_data # None
    /\ SurvivesFastPaths(number)
    /\ FormatAddress(number) >= 0
    /\ FormatAddress(number) < Len(Val(primesdb_data))

\* C14: for every n that survives the fast paths and whose address is
\* inside the buffer, is_prime_primesdb(n) is true iff the bit of n in
\* buffer[address] is set, whatever the primality of n; n = 31 has
\* address 1 and bit 0.
C14_StoredBit ==
    /\ InRangeLookup =>
         (last.ret <=> BitSet(Val(primesdb_data)[FormatAddress(number) + 1],
                              FormatBit(number)))
    /\ (InRangeLookup /\ number = 31) =>
         (/\ Address(number \div 10) = 1
          /\ BitPos(number) = 0
          /\ last.ret <=> BitSet(Val(primesdb_data)[2], 0))

\* a composite whose bit is set in a malformed buffer is reported prime
C14_Witness ==
    /\ InRangeLookup
    /\ ~IsPrime(number)
    /\ last.ret = TRUE

\* the integers whose last digit is 1, 3, 7 or 9, from decade 1 on
Candidates1379 == { m \in 10..(ScanBound + 1) : (m % 10) \in {1, 3, 7, 9} }

\* the place of a candidate in the buffer, as lines 75-89 derive it
Place(m) == <<Address(m \div 10), BitPos(m)>>

\* C15: the address/bit derivation packs eight candidates per byte one to
\* one: byte a >= 0 holds exactly the {1,3,7,9}-ending integers of decade
\* 2a+1 (bits 0-3) and of decade 2a+2 (bits 4-7), and two distinct
\* integers never have the same (address, bit) pair.
C15_OneToOnePacking ==
    (last.op = "is_prime_primesdb" /\ number \in Candidates1379) =>
        LET a == Address(number \div 10)
            b == BitPos(number)
            decade == number \div 10
        IN  /\ a >= 0
            /\ decade \in {2 * a + 1, 2 * a + 2}
            /\ decade = 2 * a + 1 <=> b \in 0..3
            /\ decade = 2 * a + 2 <=> b \in 4..7
            /\ \A m \in Candidates1379 :
                  /\ Address(m \div 10) = a
                       <=> (m \div 10) \in {2 * a + 1, 2 * a + 2}
                  /\ m # number => Place(m) # Place(number)
            /\ Cardinality({ m \in Candidates1379 :
                               Address(m \div 10) = a }) = 8

\* a lookup in the high nibble of a byte that also serves an odd decade
C15_Witness ==
    /\ InRangeLookup
    /\ (number \div 10) % 2 = 0
    /\ BitPos(number) >= 4
    /\ \E m \in Candidates1379 :
          /\ Address(m \div 10) = Address(number \div 10)
          /\ (m \div 10) % 2 = 1

\* n is answered by one of the early returns of lines 62-69
FastPath(n) ==
    \/ n < 2
    \/ n \in {2, 3, 5, 7}
    \/ n % 2 = 0 \/ n % 3 = 0 \/ n % 5 = 0

\* the last call of is_prime_primesdb ran with a buffer loaded
LoadedLookup ==
    /\ last.op = "is_prime_primesdb"
    /\ ~LoadFailed
    /\ primesdb_data # None

\* C16: with a buffer loaded, is_prime_primesdb answers n < 2 with false,
\* n in {2,3,5,7} with true and n divisible by 2, 3 or 5 with false
\* before it consults the buffer: the result does not depend on the
\* buffer's contents and equals is_prime(n).
C16_FastPathsBeforeBuffer ==
    (LoadedLookup /\ FastPath(number)) =>
        /\ last.ret = IsPrime(number)
        /\ last.ret = (number \in {2, 3, 5, 7})
        /\ \A b \in Buffers : Lookup(b, number) = last.ret

\* a multiple of 3 ending in 1, 3, 7 or 9 whose bit is set in the loaded
\* buffer is answered false
C16_Witness ==
    /\ LoadedLookup
    /\ FastPath(number)
    /\ number \in Candidates1379
    /\ FormatAddress(number) < Len(Val(primesdb_data))
    /\ BitSet(Val(primesdb_data)[FormatAddress(number) + 1],
              FormatBit(number))
    /\ last.ret = FALSE

\* the primes inside the open interval (1, bound) of the scans
PrimesInBound == { p \in 2..(ScanBound - 1) : Prime(p) }

\* each scan meets count primes before its cursor leaves (1, bound)
NeitherScanHitsGuard ==
    /\ Cardinality({ p \in PrimesInBound : p > number }) >= count
    /\ Cardinality({ p \in PrimesInBound : p < number }) >= count

\* find_closest_primes ran on a loaded, well-formed buffer
CorrectAnswers ==
    /\ Closest
    /\ ~LoadFailed
    /\ primesdb_data # None
    /\ WellFormed(Val(primesdb_data))

\* C17: when the primality answers are correct and neither scan hits the
\* (1, bound) guard, find_closest_primes(n, count) returns the count primes
\* nearest to n other than n: a prime p # n absent from the result is
\* never strictly closer than a returned entry, and no prime is returned
\* twice.
C17_NearestPrimes ==
    (CorrectAnswers /\ count >= 1 /\ NeitherScanHitsGuard) =>
        LET returned == { last.ret[i].prime_base10 : i \in DOMAIN last.ret }
        IN  /\ Len(last.ret) = count
            /\ returned \subseteq PrimesInBound \ {number}
            /\ Cardinality(returned) = Len(last.ret)
            /\ \A p \in PrimesInBound \ (returned \cup {number}) :
                  \A i \in DOMAIN last.ret :
                      Abs(p - number) >= Abs(last.ret[i].prime_base10 - number)

\* the nearest prime lies below n and the second nearest above it, with a
\* prime below n left out at the same distance
C17_Witness ==
    /\ CorrectAnswers /\ count = 2 /\ NeitherScanHitsGuard
    /\ Len(last.ret) = 2
    /\ last.ret[1].prime_base10 < number
    /\ last.ret[2].prime_base10 > number
    /\ \E p \in PrimesInBound :
          /\ p < last.ret[1].prime_base10
          /\ number - p = last.ret[2].distance

\* C18: with an index buffer loaded, for every n >= 0 and count >= 1 such
\* that at least count primes lie strictly above n and below the bound,
\* find_closest_primes(n, count) returns exactly count entries; this
\* includes n = 0.
C18_ExactlyCount ==
    (/\ CorrectAnswers
     /\ number >= 0
     /\ count >= 1
     /\ Cardinality({ p \in PrimesInBound : p > number }) >= count)
    => Len(last.ret) = count

\* C19: download_primesdb returns True iff primesdb_data is non-None when
\* it returns, so is_prime_primesdb takes the oracle-only path and
\* find_primes_near returns its early empty list only in states where
\* primesdb_data is still None.
C19_ReturnMatchesBuffer ==
    last.op \in {"is_prime_primesdb", "find_primes_near"} =>
        /\ last.load = <<"failed">> => primesdb_data = None
        /\ last.load = <<"ok">> => primesdb_data # None

\* the paths of is_prime_primesdb that return before line 75
EarlyPaths == {"below_two", "small_prime", "divisible"}

\* C20: every integer that reaches the address computation of
\* is_prime_primesdb is >= 11 with last digit in {1,3,7,9}: the last-digit
\* rejection and the address < 0 half of the range check are never taken,
\* the bit_positions lookup never misses its key and the byte index is
\* never negative.
C20_AddressInputs ==
    LoadedLookup =>
        \A n \in {number} \cup ((0 - NegN)..ScanBound) :
            LET path == LookupPath(Val(primesdb_data), n)
            IN  /\ path \notin {"last_digit", "negative_address",
                                "missing_key"}
                /\ path \notin EarlyPaths =>
                      /\ n >= 11
                      /\ (n % 10) \in {1, 3, 7, 9}
                      /\ Address(n \div 10) >= 0
                /\ path = "bit" =>
                      (Address(n \div 10) + 1) \in DOMAIN Val(primesdb_data)

\* the smallest integer that reaches the address computation reads byte 0
C20_Witness ==
    /\ LoadedLookup
    /\ number = 11
    /\ LookupPath(Val(primesdb_data), number) = "bit"
    /\ Address(number \div 10) = 0
    /\ last.ret = TRUE

====
